---- MODULE Spec2Model ----
(***************************************************************************)
(* Moderation state machine of tele2.py: the toxic_users table, the clock  *)
(* read by datetime.now(), and the handlers handle_text / handle_voice,    *)
(* which the dispatcher calls one at a time.  One handler invocation is a  *)
(* task.  A task touches shared state only in get_user_record and          *)
(* update_user_record, so its steps are: begin (capture the message and    *)
(* now), get (SELECT), body (block check, transcription, classification,   *)
(* channel calls), update (UPSERT), return.  The classifier score, the     *)
(* transcriber outcome, the channel outcomes and the database outcomes are *)
(* inputs chosen at the step that consumes them.  The text of a reply      *)
(* (explain_toxicity) is left out: only the kind of each reply and the     *)
(* expiry it carries are kept.                                             *)
(***************************************************************************)
EXTENDS Integers, Sequences, FiniteSets, TLC

VARIABLES store, clock, task, issued, nmsgs, hist

vars == <<store, clock, task, issued, nmsgs, hist>>

(* ------------------------------ bounds -------------------------------- *)
\* latest value of the clock (time unit: one day)
MaxTime == 2
\* number of messages dispatched in one run
MaxMessages == 3

(* ------------------------- program constants -------------------------- *)
\* toxic_count == 8
WarnAt == 8
\* toxic_count >= 10
BlockAt == 10
\* timedelta(days=2)
BlockDays == 2
\* prediction > 0.5, scores in tenths
Threshold == 5

(* ------------------------------ domains ------------------------------- *)
Users == {"u1", "u2"}
Tasks == {"t1"}
Kinds == {"text", "voice"}
\* Python None / SQL NULL for blocked_until; fetchone() of no row
None == -1
\* model.predict(...)[0][0], in tenths
Scores == {5, 6}
\* update.message.from_user of each user: username (absent: "") and first_name
FromUser ==
  [u \in Users |->
     IF u = "u1" THEN [username |-> "nick", first_name |-> "Ann"]
     ELSE [username |-> "", first_name |-> "Bob"]]
\* the display name stored by an earlier run, before the user renamed
OldName == "old"
\* outcome of context.bot.delete_message: done, BadRequest, any other error
DeleteOutcomes == {"ok", "BadRequest", "error"}
\* rows a previous run of the bot can have left in toxic_users
InitCounts == {6, 7, 9}

Reply(kind, until) == [kind |-> kind, until |-> until]

\* a row of toxic_users; Absent: the user has no row
Row(toxic_count, blocked_until, username) ==
  [present |-> TRUE, toxic_count |-> toxic_count,
   blocked_until |-> blocked_until, username |-> username]
Absent ==
  [present |-> FALSE, toxic_count |-> 0, blocked_until |-> None, username |-> ""]

\* the locals of one handler invocation
Idle ==
  [pc |-> "idle", kind |-> "text", user_id |-> "u1", username |-> "",
   now |-> 0,
   record |-> [found |-> FALSE, toxic_count |-> 0, blocked_until |-> None],
   toxic_count |-> 0, blocked_until |-> None,
   transcribed |-> FALSE, text |-> "?", classified |-> FALSE,
   prediction |-> None, deleted |-> "no", replies |-> <<>>,
   updated |-> "no", error |-> "none", owed |-> None]

(* --------------------------- pure functions --------------------------- *)
Max(a, b) == IF a > b THEN a ELSE b

\* update.message.from_user.username or update.message.from_user.first_name
DisplayName(username, first_name) ==
  IF username # "" THEN username ELSE first_name

\* SELECT toxic_count, blocked_until ... fetchone(); None on a DB error
get_user_record(row, ok) ==
  IF ok /\ row.present
  THEN [found |-> TRUE, toxic_count |-> row.toxic_count,
        blocked_until |-> row.blocked_until]
  ELSE [found |-> FALSE, toxic_count |-> 0, blocked_until |-> None]

\* the statement takes effect although the call reports an error
update_user_record_written_anyway(row, username, toxic_count, blocked_until, ok) ==
  Row(toxic_count, blocked_until, username)

\* an UPDATE in place of the upsert: a user without a row gets none
update_user_record_update_only(row, username, toxic_count, blocked_until, ok) ==
  IF ok /\ row.present THEN Row(toxic_count, blocked_until, username) ELSE row

\* the upsert without its DO UPDATE: a row that exists is left as it is
update_user_record_insert_only(row, username, toxic_count, blocked_until, ok) ==
  IF ok /\ ~row.present THEN Row(toxic_count, blocked_until, username) ELSE row

\* INSERT ... ON CONFLICT (user_id) DO UPDATE; the error is logged and dropped
update_user_record(row, username, toxic_count, blocked_until, ok) ==
  IF ok THEN Row(toxic_count, blocked_until, username) ELSE row

\* 1 if prediction > 0.5 else 0
detect_toxicity(score) ==
  IF score > Threshold THEN 1 ELSE 0

\* "" when the conversion fails or the recognizer gives up, else the text heard
speech_to_text(conversion, recognition) ==
  IF conversion = "error" THEN ""
  ELSE IF recognition \in {"UnknownValueError", "RequestError"} THEN ""
  ELSE recognition

\* the block check left out
IsBlocked_ignored(blocked_until, now) ==
  FALSE

\* the comparison not strict: now <= blocked_until
IsBlocked_le(blocked_until, now) ==
  blocked_until # None /\ now <= blocked_until

\* the comparison turned round: now > blocked_until
IsBlocked_reversed(blocked_until, now) ==
  blocked_until # None /\ now > blocked_until

\* if blocked_until and now < blocked_until
IsBlocked(blocked_until, now) ==
  blocked_until # None /\ now < blocked_until

\* the warning repeated on the next count: toxic_count in 8..9
text_escalate_warn_again(toxic_count, blocked_until, now) ==
  IF toxic_count \in WarnAt..(WarnAt + 1)
  THEN [blocked_until |-> blocked_until, replies |-> <<Reply("Warning", None)>>]
  ELSE IF toxic_count >= BlockAt
  THEN [blocked_until |-> now + BlockDays,
        replies |-> <<Reply("Blocked", now + BlockDays)>>]
  ELSE [blocked_until |-> blocked_until, replies |-> <<>>]

\* the block imposed where the warning is due: toxic_count >= 8
text_escalate_block_at_warning(toxic_count, blocked_until, now) ==
  IF toxic_count >= WarnAt
  THEN [blocked_until |-> now + BlockDays,
        replies |-> <<Reply("Blocked", now + BlockDays)>>]
  ELSE [blocked_until |-> blocked_until, replies |-> <<>>]

\* the block test off by one: toxic_count >= 9
text_escalate_at9(toxic_count, blocked_until, now) ==
  IF toxic_count = WarnAt
  THEN [blocked_until |-> blocked_until, replies |-> <<Reply("Warning", None)>>]
  ELSE IF toxic_count >= BlockAt - 1
  THEN [blocked_until |-> now + BlockDays,
        replies |-> <<Reply("Blocked", now + BlockDays)>>]
  ELSE [blocked_until |-> blocked_until, replies |-> <<>>]

\* handle_text: if toxic_count == 8: Warning / elif toxic_count >= 10: block
text_escalate(toxic_count, blocked_until, now) ==
  IF toxic_count = WarnAt
  THEN [blocked_until |-> blocked_until, replies |-> <<Reply("Warning", None)>>]
  ELSE IF toxic_count >= BlockAt
  THEN [blocked_until |-> now + BlockDays,
        replies |-> <<Reply("Blocked", now + BlockDays)>>]
  ELSE [blocked_until |-> blocked_until, replies |-> <<>>]

\* the block test strict: toxic_count > 10
voice_escalate_gt10(toxic_count, blocked_until, now) ==
  IF toxic_count = WarnAt
  THEN [blocked_until |-> blocked_until, replies |-> <<Reply("Warning", None)>>]
  ELSE IF toxic_count > BlockAt
  THEN [blocked_until |-> now + BlockDays,
        replies |-> <<Reply("Blocked", now + BlockDays)>>]
  ELSE [blocked_until |-> blocked_until, replies |-> <<>>]

\* the warning test as a threshold: toxic_count >= 8
voice_escalate_warn_ge(toxic_count, blocked_until, now) ==
  IF toxic_count >= WarnAt
  THEN [blocked_until |-> blocked_until, replies |-> <<Reply("Warning", None)>>]
  ELSE IF toxic_count >= BlockAt
  THEN [blocked_until |-> now + BlockDays,
        replies |-> <<Reply("Blocked", now + BlockDays)>>]
  ELSE [blocked_until |-> blocked_until, replies |-> <<>>]

\* handle_voice: if toxic_count == 8: Warning / elif toxic_count >= 10: block
voice_escalate(toxic_count, blocked_until, now) ==
  IF toxic_count = WarnAt
  THEN [blocked_until |-> blocked_until, replies |-> <<Reply("Warning", None)>>]
  ELSE IF toxic_count >= BlockAt
  THEN [blocked_until |-> now + BlockDays,
        replies |-> <<Reply("Blocked", now + BlockDays)>>]
  ELSE [blocked_until |-> blocked_until, replies |-> <<>>]

\* handle_text, if prediction == 1: ... else: ...; the toxic branch deletes
\* the message before it replies
handle_text_decide(prediction, toxic_count, blocked_until, now) ==
  IF prediction = 1
  THEN LET e == text_escalate(toxic_count + 1, blocked_until, now) IN
       [toxic_count |-> toxic_count + 1, blocked_until |-> e.blocked_until,
        delete |-> TRUE,
        replies |-> <<Reply("ToxicRemoved", None)>> \o e.replies]
  ELSE [toxic_count |-> toxic_count, blocked_until |-> blocked_until,
        delete |-> FALSE, replies |-> <<Reply("Clean", None)>>]

\* the voice handler without its increment: toxic_count += 1 left out
handle_voice_decide_keeps_count(prediction, toxic_count, blocked_until, now) ==
  IF prediction = 1
  THEN LET e == voice_escalate(toxic_count, blocked_until, now) IN
       [toxic_count |-> toxic_count, blocked_until |-> e.blocked_until,
        delete |-> FALSE,
        replies |-> <<Reply("ToxicRemoved", None)>> \o e.replies]
  ELSE [toxic_count |-> toxic_count, blocked_until |-> blocked_until,
        delete |-> FALSE, replies |-> <<Reply("Clean", None)>>]

\* handle_voice, if prediction == 1: ... else: ...; the message was deleted
\* before the classifier ran, so neither branch deletes
handle_voice_decide(prediction, toxic_count, blocked_until, now) ==
  IF prediction = 1
  THEN LET e == voice_escalate(toxic_count + 1, blocked_until, now) IN
       [toxic_count |-> toxic_count + 1, blocked_until |-> e.blocked_until,
        delete |-> FALSE,
        replies |-> <<Reply("ToxicRemoved", None)>> \o e.replies]
  ELSE [toxic_count |-> toxic_count, blocked_until |-> blocked_until,
        delete |-> FALSE, replies |-> <<Reply("Clean", None)>>]

\* the early return on an empty transcription left out
NotText_never(text) ==
  FALSE

\* handle_voice: if not text: reply and return
NotText(text) ==
  text = ""

\* The channel calls of one stretch of a handler, in program order: an optional
\* delete_message (BadRequest is swallowed, any other error propagates), then
\* the reply_text calls, of which the first k succeed and the next one, if any,
\* raises.  A raised error leaves the handler at once; error names the call
\* that raised.
Channel(s, delete, d, replies, k, next) ==
  IF delete /\ d = "error"
  THEN [s EXCEPT !.deleted = d, !.pc = "raised", !.error = "delete"]
  ELSE LET s1 == [s EXCEPT !.deleted = IF delete THEN d ELSE s.deleted,
                           !.replies = s.replies \o SubSeq(replies, 1, k)]
       IN  IF k < Len(replies)
           THEN [s1 EXCEPT !.pc = "raised", !.error = "reply"]
           ELSE [s1 EXCEPT !.pc = next]

\* the latest expiry among the Blocked replies in a sequence of replies, or old
Issued(old, replies) ==
  LET B == {replies[i].until : i \in {j \in 1..Len(replies) : replies[j].kind = "Blocked"}}
  IN  IF B = {} THEN old ELSE Max(old, CHOOSE b \in B : \A x \in B : x <= b)

(* ------------------------------- state -------------------------------- *)
\* store:  the toxic_users table, one row (or none) per user_id
\* clock:  the wall clock datetime.now() reads
\* task:   the handler invocations in progress and their locals
\* issued: per user, the latest expiry announced in a Blocked reply (history)
\* nmsgs:  the number of messages dispatched so far
\* hist:   history of the run: seen[u], a handler has returned for a message
\*         of u (or u had a row at the start); warn[u], the Warning replies
\*         sent to u ("late": one sent after a Blocked reply); dbfail, a
\*         database read or write has failed
InitRows ==
  {Absent} \cup {Row(c, None, OldName) : c \in InitCounts}

Init ==
  /\ store \in [Users -> InitRows]
  /\ clock = 0
  /\ task = [t \in Tasks |-> Idle]
  /\ issued = [u \in Users |-> None]
  /\ nmsgs = 0
  /\ hist = [seen |-> [u \in Users |-> store[u].present],
             warn |-> [u \in Users |-> "no"],
             dbfail |-> FALSE]

\* The dispatcher thread takes the next update and calls its handler, which
\* reads user_id, username and now.  The handlers are registered without
\* run_async, so the dispatcher calls one handler at a time.
Begin(t) ==
  /\ \A o \in DOMAIN task : task[o].pc = "idle"
  /\ nmsgs < MaxMessages
  /\ \E u \in Users, kind \in Kinds :
       task' = [task EXCEPT ![t] =
                  [Idle EXCEPT !.pc = "get", !.kind = kind, !.user_id = u,
                               !.username = DisplayName(FromUser[u].username,
                                                        FromUser[u].first_name),
                               !.now = clock, !.owed = issued[u]]]
  /\ nmsgs' = nmsgs + 1
  /\ UNCHANGED <<store, clock, issued, hist>>

\* record = get_user_record(user_id); toxic_count, blocked_until = 0, None;
\* if record: toxic_count, blocked_until = record
GetRecord(t) ==
  /\ task[t].pc = "get"
  /\ \E ok \in BOOLEAN :
       LET record == get_user_record(store[task[t].user_id], ok) IN
       /\ task' = [task EXCEPT ![t].pc = "body",
                               ![t].record = record,
                               ![t].toxic_count =
                                  IF record.found THEN record.toxic_count ELSE 0,
                               ![t].blocked_until =
                                  IF record.found THEN record.blocked_until ELSE None]
       /\ hist' = [hist EXCEPT !.dbfail = @ \/ ~ok]
  /\ UNCHANGED <<store, clock, issued, nmsgs>>

\* the Warning replies sent to a user so far, after one more is sent
Warned(warn, blocked) ==
  IF blocked THEN "late" ELSE IF warn = "no" THEN "once" ELSE "twice"

\* the new locals of a task become visible, with the Blocked and Warning
\* replies it sent
Step(t, s) ==
  /\ task' = [task EXCEPT ![t] = s]
  /\ issued' = [issued EXCEPT ![s.user_id] = Issued(@, s.replies)]
  /\ hist' = [hist EXCEPT !.warn[s.user_id] =
                 IF \E i \in 1..Len(s.replies) : s.replies[i].kind = "Warning"
                 THEN Warned(@, issued[s.user_id] # None) ELSE @]
  /\ UNCHANGED <<store, clock, nmsgs>>

\* blocked_until = now + timedelta(days=2) is reached only when the delete did
\* not raise and the ToxicRemoved reply before it was sent
Assign(s, delete, d, k, blocked_until) ==
  IF (delete /\ d = "error") \/ k = 0
  THEN s
  ELSE [s EXCEPT !.blocked_until = blocked_until]

\* handle_text from the block check to the call of update_user_record
handle_text_body(t) ==
  /\ task[t].pc = "body"
  /\ task[t].kind = "text"
  /\ LET s == task[t] IN
     IF IsBlocked(s.blocked_until, s.now)
     THEN \E d \in DeleteOutcomes, k \in 0..1 :
            Step(t, Channel(s, TRUE, d,
                            <<Reply("AlreadyBlocked", s.blocked_until)>>, k, "done"))
     ELSE \E score \in Scores, d \in DeleteOutcomes :
            LET prediction == detect_toxicity(score)
                dec == handle_text_decide(prediction, s.toxic_count,
                                          s.blocked_until, s.now)
                s1 == [s EXCEPT !.text = "words", !.classified = TRUE,
                                !.prediction = prediction,
                                !.toxic_count = dec.toxic_count]
            IN  \E k \in 0..Len(dec.replies) :
                  Step(t, Channel(Assign(s1, dec.delete, d, k, dec.blocked_until),
                                  dec.delete, d, dec.replies, k, "update"))

\* handle_voice from the block check to the call of update_user_record
handle_voice_body(t) ==
  /\ task[t].pc = "body"
  /\ task[t].kind = "voice"
  /\ LET s == task[t] IN
     IF IsBlocked(s.blocked_until, s.now)
     THEN \E d \in DeleteOutcomes, k \in 0..1 :
            Step(t, Channel(s, TRUE, d,
                            <<Reply("AlreadyBlocked", s.blocked_until)>>, k, "done"))
     ELSE \/ \* voice.get_file() or download() raises
             Step(t, [s EXCEPT !.pc = "raised", !.error = "download"])
          \/ \E conversion \in {"ok", "error"},
                recognition \in {"words", "UnknownValueError", "RequestError"},
                d \in DeleteOutcomes, score \in Scores :
               LET text == speech_to_text(conversion, recognition)
                   s1 == [s EXCEPT !.transcribed = TRUE, !.text = text]
               IN
               IF NotText(text)
               THEN \E k \in 0..1 :
                      Step(t, Channel(s1, TRUE, d,
                                      <<Reply("Unintelligible", None)>>, k, "done"))
               ELSE LET prediction == detect_toxicity(score)
                        dec == handle_voice_decide(prediction, s.toxic_count,
                                                   s.blocked_until, s.now)
                        s2 == [s1 EXCEPT !.classified = d # "error",
                                         !.prediction =
                                            IF d # "error" THEN prediction ELSE None,
                                         !.toxic_count =
                                            IF d # "error" THEN dec.toxic_count
                                            ELSE s.toxic_count]
                    IN  \E k \in 0..Len(dec.replies) :
                          Step(t, Channel(Assign(s2, TRUE, d, k, dec.blocked_until),
                                          TRUE, d, dec.replies, k, "update"))

\* the upsert without its key: every row takes the values of the call
UpdateRecord_all_rows(t) ==
  /\ task[t].pc = "update"
  /\ \E ok \in BOOLEAN :
       LET s == task[t] IN
       /\ store' = [u \in Users |->
                      update_user_record(store[u], s.username, s.toxic_count,
                                         s.blocked_until, ok)]
       /\ task' = [task EXCEPT ![t].pc = "done",
                               ![t].updated = IF ok THEN "ok" ELSE "error"]
       /\ hist' = [hist EXCEPT !.dbfail = @ \/ ~ok]
  /\ UNCHANGED <<clock, issued, nmsgs>>

\* update_user_record(user_id, username, toxic_count, blocked_until)
UpdateRecord(t) ==
  /\ task[t].pc = "update"
  /\ \E ok \in BOOLEAN :
       LET s == task[t] IN
       /\ store' = [store EXCEPT ![s.user_id] =
                      update_user_record(@, s.username, s.toxic_count,
                                         s.blocked_until, ok)]
       /\ task' = [task EXCEPT ![t].pc = "done",
                               ![t].updated = IF ok THEN "ok" ELSE "error"]
       /\ hist' = [hist EXCEPT !.dbfail = @ \/ ~ok]
  /\ UNCHANGED <<clock, issued, nmsgs>>

\* the handler has returned, or raised into the dispatcher, which logs the
\* error and goes on
Return(t) ==
  /\ task[t].pc \in {"done", "raised"}
  /\ task' = [task EXCEPT ![t] = Idle]
  /\ hist' = [hist EXCEPT !.seen[task[t].user_id] = @ \/ task[t].pc = "done"]
  /\ UNCHANGED <<store, clock, issued, nmsgs>>

\* time passes
Tick ==
  /\ clock < MaxTime
  /\ clock' = clock + 1
  /\ UNCHANGED <<store, task, issued, nmsgs, hist>>

Next ==
  \/ \E t \in DOMAIN task : Begin(t)
  \/ \E t \in DOMAIN task : GetRecord(t)
  \/ \E t \in DOMAIN task : handle_text_body(t)
  \/ \E t \in DOMAIN task : handle_voice_body(t)
  \/ \E t \in DOMAIN task : UpdateRecord(t)
  \/ \E t \in DOMAIN task : Return(t)
  \/ Tick

Spec == Init /\ [][Next]_vars

(* ----------------------- overlapping invocations ---------------------- *)
\* The same handlers when invocations overlap: more than one dispatcher works
\* on the same toxic_users table (a second bot process polling with the same
\* token during a redeploy, or handlers run on the worker threads of the
\* Updater).  Between the SELECT of one invocation and its upsert another
\* invocation can read and write.  Two invocations are followed, each from
\* its call to its end; the user u1 has a row, the user u2 has none.
AsyncTasks == {"t1", "t2"}
InitCountsAsync == {7, 9}

InitAsync ==
  /\ \E c \in InitCountsAsync :
       store = [u \in Users |-> IF u = "u1" THEN Row(c, None, OldName) ELSE Absent]
  /\ clock = 0
  /\ task = [t \in AsyncTasks |-> Idle]
  /\ issued = [u \in Users |-> None]
  /\ nmsgs = 0
  /\ hist = [seen |-> [u \in Users |-> store[u].present],
             warn |-> [u \in Users |-> "no"],
             dbfail |-> FALSE]

\* a dispatcher calls a handler while another invocation is in progress
BeginAsync(t) ==
  /\ task[t].pc = "idle"
  /\ nmsgs < MaxMessages
  /\ \E u \in Users, kind \in Kinds :
       task' = [task EXCEPT ![t] =
                  [Idle EXCEPT !.pc = "get", !.kind = kind, !.user_id = u,
                               !.username = DisplayName(FromUser[u].username,
                                                        FromUser[u].first_name),
                               !.now = clock, !.owed = issued[u]]]
  /\ nmsgs' = nmsgs + 1
  /\ UNCHANGED <<store, clock, issued, hist>>

NextAsync ==
  \/ \E t \in DOMAIN task : BeginAsync(t)
  \/ \E t \in DOMAIN task : GetRecord(t)
  \/ \E t \in DOMAIN task : handle_text_body(t)
  \/ \E t \in DOMAIN task : handle_voice_body(t)
  \/ \E t \in DOMAIN task : UpdateRecord(t)
  \/ Tick

SpecAsync == InitAsync /\ [][NextAsync]_vars

(* ------------------------------ claims -------------------------------- *)
ReplyKinds(s) == {s.replies[i].kind : i \in 1..Len(s.replies)}

\* the handler has read the record
HasRead(s) == s.pc \in {"body", "update", "done", "raised"}

\* the values the handler read: those of the row, or 0 and None without a row
ReadCount(s) == IF s.record.found THEN s.record.toxic_count ELSE 0
ReadUntil(s) == IF s.record.found THEN s.record.blocked_until ELSE None

\* the record read puts the user in the Blocked state at the handler's now
ReadBlocked(s) ==
  HasRead(s) /\ s.record.found /\ s.record.blocked_until # None
             /\ s.record.blocked_until > s.now

\* the handler reached update_user_record (it did not return early or raise)
\* for a Clean user and a toxic verdict
ToxicDecided(s) ==
  s.pc \in {"update", "done"} /\ ~ReadBlocked(s) /\ s.prediction = 1

\* C1: a handler (text or voice) that read a record whose blocked_until is
\* set and later than its now never calls the classifier or the transcriber
\* and never reaches update_user_record; once it has left the block branch it
\* has attempted the deletion, and when it returns it has sent exactly the
\* AlreadyBlocked reply carrying the blocked_until it read.
C1_BlockedRejected ==
  \A t \in Tasks :
    LET s == task[t] IN
    ReadBlocked(s) =>
      /\ ~s.classified /\ ~s.transcribed /\ s.prediction = None
      /\ s.pc \in {"body", "done", "raised"}
      /\ s.pc \in {"done", "raised"} => s.deleted # "no"
      /\ s.pc = "done" =>
           s.replies = <<Reply("AlreadyBlocked", s.record.blocked_until)>>

C1_Witness ==
  \E t \in Tasks :
    /\ ReadBlocked(task[t]) /\ task[t].kind = "voice" /\ task[t].pc = "done"
    /\ task[t].deleted = "BadRequest"
    /\ task[t].replies = <<Reply("AlreadyBlocked", task[t].record.blocked_until)>>

\* C2: a handler that reaches update_user_record for a Clean user with a toxic
\* verdict and new_count >= 10 has set blocked_until to its now + 2 days and
\* sent ToxicRemoved then Blocked(now + 2 days); the record it persists has
\* toxic_count = new_count and that blocked_until.
C2_BlockAtTen ==
  \A t \in Tasks :
    LET s == task[t] IN
    (ToxicDecided(s) /\ ReadCount(s) + 1 >= 10) =>
      /\ s.toxic_count = ReadCount(s) + 1
      /\ s.blocked_until = s.now + 2
      /\ s.replies = <<Reply("ToxicRemoved", None), Reply("Blocked", s.now + 2)>>
      /\ s.updated = "ok" =>
           /\ store[s.user_id].present
           /\ store[s.user_id].toxic_count = ReadCount(s) + 1
           /\ store[s.user_id].blocked_until = s.now + 2

C2_Witness ==
  \E t \in Tasks :
    /\ ToxicDecided(task[t]) /\ ReadCount(task[t]) = 9 /\ task[t].now = 1
    /\ task[t].updated = "ok" /\ store[task[t].user_id].blocked_until = 3

\* C3 as claimed: the block is issued exactly when the incremented count is 9
\* or above.
C3_BlockAtNine ==
  \A t \in Tasks :
    LET s == task[t] IN
    ToxicDecided(s) =>
      (ReadCount(s) + 1 >= 9
         <=> (s.blocked_until = s.now + 2 /\ "Blocked" \in ReplyKinds(s)))

\* C3 amended: on a toxic verdict for a Clean user the block is issued exactly
\* when the incremented count is 10 or above: then blocked_until = now + 2 days
\* and Blocked(now + 2 days) is among the replies; below 10 (a user at 8 who
\* reaches 9 included) blocked_until stays as read and no Blocked is sent.
C3_BlockExactlyFromTen ==
  \A t \in Tasks :
    LET s == task[t] IN
    ToxicDecided(s) =>
      /\ ReadCount(s) + 1 >= 10 =>
           /\ s.blocked_until = s.now + 2
           /\ Reply("Blocked", s.now + 2) \in {s.replies[i] : i \in 1..Len(s.replies)}
      /\ ReadCount(s) + 1 < 10 =>
           /\ s.blocked_until = ReadUntil(s)
           /\ s.blocked_until # s.now + 2
           /\ "Blocked" \notin ReplyKinds(s)

C3_Witness ==
  \E t \in Tasks :
    /\ ToxicDecided(task[t]) /\ ReadCount(task[t]) = 8 /\ task[t].pc = "done"
    /\ task[t].updated = "ok" /\ task[t].blocked_until = None
    /\ task[t].replies = <<Reply("ToxicRemoved", None)>>

\* C4: on a toxic verdict for a Clean user the Warning reply is sent (after
\* ToxicRemoved) if and only if the incremented count is 8, that is the count
\* read was 7; this message then leaves blocked_until as read.
C4_WarningExactlyAtEight ==
  \A t \in Tasks :
    LET s == task[t] IN
    ToxicDecided(s) =>
      /\ "Warning" \in ReplyKinds(s) <=> ReadCount(s) = 7
      /\ ReadCount(s) = 7 =>
           /\ s.replies = <<Reply("ToxicRemoved", None), Reply("Warning", None)>>
           /\ s.toxic_count = 8
           /\ s.blocked_until = ReadUntil(s)

C4_Witness ==
  \E t \in Tasks :
    /\ ToxicDecided(task[t]) /\ ReadCount(task[t]) = 7 /\ task[t].pc = "done"
    /\ "Warning" \in ReplyKinds(task[t]) /\ task[t].blocked_until = None

\* C5 as claimed: no step lowers the toxic_count stored for a user.
C5_CountNeverDecremented ==
  [][\A u \in Users :
       store[u].present =>
         /\ store'[u].present
         /\ store'[u].toxic_count >= store[u].toxic_count]_vars

\* C6 as claimed: a message of a user whose handling starts before the expiry
\* of a block already announced to that user in a Blocked reply is never
\* transcribed or classified, and its handler answers AlreadyBlocked.
C6_RejectedUntilExpiry ==
  \A t \in Tasks :
    LET s == task[t] IN
    (s.pc # "idle" /\ s.owed # None /\ s.now < s.owed) =>
      /\ ~s.classified /\ ~s.transcribed
      /\ s.pc \in {"update", "done"} => "AlreadyBlocked" \in ReplyKinds(s)

\* C7 as claimed: a handler (text or voice) that reaches update_user_record
\* for a Clean user with a non-toxic verdict has attempted no deletion and sent
\* exactly the Clean reply, and after it the stored toxic_count and
\* blocked_until are those stored when it began.
C7_CleanAdmitted ==
  \A t \in Tasks :
    LET s == task[t] IN
    (s.pc \in {"update", "done"} /\ ~ReadBlocked(s) /\ s.prediction = 0) =>
      /\ s.deleted = "no"
      /\ s.replies = <<Reply("Clean", None)>>
      /\ s.toxic_count = ReadCount(s) /\ s.blocked_until = ReadUntil(s)
      /\ (s.pc = "done" /\ s.record.found) =>
           /\ store[s.user_id].toxic_count = s.record.toxic_count
           /\ store[s.user_id].blocked_until = s.record.blocked_until

\* C8: a handler that reaches update_user_record for a Clean user with a toxic
\* verdict and a count read below 7 passes the count read plus 1 and the
\* blocked_until read, has sent ToxicRemoved and nothing else, and the row it
\* persists holds those values; with no record read that is toxic_count = 1,
\* blocked_until = None.
C8_PlainIncrementBelowSeven ==
  \A t \in Tasks :
    LET s == task[t] IN
    (ToxicDecided(s) /\ ReadCount(s) < 7) =>
      /\ s.toxic_count = ReadCount(s) + 1
      /\ s.blocked_until = ReadUntil(s)
      /\ s.replies = <<Reply("ToxicRemoved", None)>>
      /\ ~s.record.found => (s.toxic_count = 1 /\ s.blocked_until = None)
      /\ s.updated = "ok" =>
           /\ store[s.user_id].present
           /\ store[s.user_id].toxic_count = ReadCount(s) + 1
           /\ store[s.user_id].blocked_until = ReadUntil(s)

C8_Witness ==
  \E t \in Tasks :
    /\ ToxicDecided(task[t]) /\ task[t].record.found
    /\ task[t].record.toxic_count = 6 /\ task[t].updated = "ok"
    /\ store[task[t].user_id].toxic_count = 7
    /\ store[task[t].user_id].blocked_until = None

\* C9: a handler that read a record whose blocked_until is set and equal to or
\* earlier than its now sends no AlreadyBlocked reply and, when it returns or
\* reaches update_user_record, has classified the message (a voice message
\* has been transcribed, and classified unless the transcription is empty);
\* AlreadyBlocked is sent only on a blocked_until strictly
\* later than now.
C9_StrictBlockedTest ==
  \A t \in Tasks :
    LET s == task[t] IN
    /\ (HasRead(s) /\ s.record.found /\ s.record.blocked_until # None
                   /\ s.record.blocked_until <= s.now) =>
         /\ "AlreadyBlocked" \notin ReplyKinds(s)
         /\ s.pc \in {"update", "done"} =>
              /\ s.kind = "text" => s.classified
              /\ s.kind = "voice" => (s.transcribed /\ (s.text # "" => s.classified))
    /\ "AlreadyBlocked" \in ReplyKinds(s) =>
         (s.record.found /\ s.record.blocked_until > s.now)

C9_Witness ==
  \E t \in Tasks :
    /\ task[t].pc = "update" /\ task[t].record.found
    /\ task[t].record.blocked_until = task[t].now
    /\ task[t].kind = "voice" /\ task[t].transcribed /\ task[t].classified

\* C10: a voice handler for a Clean user whose transcription is empty has
\* attempted the deletion, never calls the classifier, never reaches
\* update_user_record, and when it returns has sent exactly the Unintelligible
\* reply; the row of the user is as it was read.
C10_UnintelligibleNoWrite ==
  \A t \in Tasks :
    LET s == task[t] IN
    (s.kind = "voice" /\ ~ReadBlocked(s) /\ s.transcribed /\ s.text = "") =>
      /\ s.pc \in {"done", "raised"}
      /\ s.deleted # "no"
      /\ ~s.classified /\ s.prediction = None
      /\ s.updated = "no"
      /\ s.toxic_count = ReadCount(s) /\ s.blocked_until = ReadUntil(s)
      /\ s.pc = "done" => s.replies = <<Reply("Unintelligible", None)>>
      /\ s.record.found =>
           /\ store[s.user_id].toxic_count = s.record.toxic_count
           /\ store[s.user_id].blocked_until = s.record.blocked_until

C10_Witness ==
  \E t \in Tasks :
    /\ task[t].kind = "voice" /\ task[t].transcribed /\ task[t].text = ""
    /\ task[t].pc = "done" /\ task[t].record.found
    /\ task[t].replies = <<Reply("Unintelligible", None)>>

\* C11: a handler (text or voice) that read a record in the Blocked state
\* never calls update_user_record, and no step taken from the moment it has
\* read the record changes the row of its user: toxic_count, blocked_until
\* and username stay as they were.
C11_BlockedNoWrite ==
  [][\A t \in DOMAIN task :
       ReadBlocked(task'[t]) =>
         /\ task'[t].updated = "no"
         /\ task'[t].pc # "update"
         /\ store'[task'[t].user_id] = store[task'[t].user_id]]_vars

C11_Witness ==
  \E t \in DOMAIN task :
    /\ ReadBlocked(task[t]) /\ task[t].pc = "done" /\ task[t].kind = "text"
    /\ task[t].updated = "no"
    /\ store[task[t].user_id].toxic_count = task[t].record.toxic_count
    /\ store[task[t].user_id].blocked_until = task[t].record.blocked_until

NoHandlerInProgress == \A t \in DOMAIN task : task[t].pc = "idle"

\* C12 as claimed: with no handler in progress a user has a row if and only
\* if a handler has returned for a message of that user, whatever the outcome
\* (rows found at the start count as messages processed by an earlier run); a
\* row created by a first message that is not toxic holds 0 and None.
C12_RecordIffProcessed ==
  /\ NoHandlerInProgress =>
       \A u \in Users : store[u].present <=> hist.seen[u]
  /\ \A t \in DOMAIN task :
       LET s == task[t] IN
       (s.pc = "done" /\ ~hist.seen[s.user_id] /\ s.prediction = 0
          /\ store[s.user_id].present) =>
         (store[s.user_id].toxic_count = 0 /\ store[s.user_id].blocked_until = None)

\* C12 amended: with no handler in progress a user has a row only if a handler
\* has returned for a message of that user; the row is created by the first
\* handler that reaches update_user_record and whose write succeeds; a handler
\* that returns after Unintelligible, raises, or whose write fails creates no
\* row; a row created by a first message that is not toxic holds 0 and None.
C12_RecordIffPersisted ==
  /\ NoHandlerInProgress =>
       \A u \in Users : store[u].present => hist.seen[u]
  /\ \A t \in DOMAIN task :
       LET s == task[t] IN
       /\ (s.pc = "done" /\ s.updated = "ok") => store[s.user_id].present
       /\ (s.pc \in {"done", "raised"} /\ ~hist.seen[s.user_id]
             /\ s.updated # "ok") => ~store[s.user_id].present
       /\ (s.pc = "done" /\ ~hist.seen[s.user_id] /\ s.prediction = 0
             /\ s.updated = "ok") =>
            /\ store[s.user_id].toxic_count = 0
            /\ store[s.user_id].blocked_until = None

C12_Witness ==
  \E t \in DOMAIN task :
    /\ task[t].pc = "done" /\ ~hist.seen[task[t].user_id]
    /\ task[t].prediction = 0 /\ task[t].updated = "ok"
    /\ store[task[t].user_id].present
    /\ store[task[t].user_id].toxic_count = 0

\* the handler is over: it returned or it raised
Over(s) == s.pc \in {"done", "raised"}

\* C13 as claimed: a handler whose delete_message failed, with BadRequest or
\* with any other error, is not stopped by it: unless a reply_text fails, it
\* returns having sent its replies, and having called update_user_record when
\* it classified the message.
C13_DeleteFailureHarmless ==
  \A t \in DOMAIN task :
    LET s == task[t] IN
    (Over(s) /\ s.deleted \in {"BadRequest", "error"} /\ s.error # "reply") =>
      /\ s.pc = "done"
      /\ s.replies # <<>>
      /\ s.classified => s.updated # "no"

\* C14 as claimed: a handler with a toxic verdict one of whose reply_text calls
\* failed still returns and has called update_user_record with the
\* incremented count.
C14_ReplyFailureSwallowed ==
  \A t \in DOMAIN task :
    LET s == task[t] IN
    (Over(s) /\ s.prediction = 1 /\ s.error = "reply") =>
      /\ s.pc = "done"
      /\ s.updated # "no"
      /\ s.updated = "ok" => store[s.user_id].toxic_count = ReadCount(s) + 1

\* C15: the step in which update_user_record fails leaves every row of the
\* store as it was, and the handler returns normally (no error leaves it)
\* with the deletion outcome and the replies it had before the call.
C15_WriteFailureContained ==
  [][\A t \in DOMAIN task :
       (task[t].updated = "no" /\ task'[t].updated = "error") =>
         /\ store' = store
         /\ task'[t].pc = "done" /\ task'[t].error = "none"
         /\ task'[t].replies = task[t].replies /\ task'[t].replies # <<>>
         /\ task'[t].deleted = task[t].deleted]_vars

C15_Witness ==
  \E t \in DOMAIN task :
    /\ task[t].pc = "done" /\ task[t].updated = "error"
    /\ task[t].prediction = 1 /\ task[t].record.found
    /\ task[t].toxic_count = task[t].record.toxic_count + 1
    /\ store[task[t].user_id].toxic_count = task[t].record.toxic_count
    /\ task[t].deleted = "ok"

C17_BlockImpliesTen ==
  \A u \in Users :
    (store[u].present /\ store[u].blocked_until # None) =>
      store[u].toxic_count >= BlockAt

\* two overlapping invocations both read 9 and both stored the block
C17_Witness ==
  \E t1, t2 \in DOMAIN task :
    /\ t1 # t2 /\ task[t1].user_id = task[t2].user_id
    /\ \A t \in {t1, t2} :
         /\ task[t].pc = "done" /\ task[t].updated = "ok"
         /\ task[t].record.found /\ task[t].record.toxic_count = BlockAt - 1
         /\ task[t].blocked_until # None
    /\ task[t1].kind # task[t2].kind
    /\ store[task[t1].user_id].blocked_until # None
    /\ store[task[t1].user_id].toxic_count = BlockAt

\* C18: while the handlers run one after another and no read or write of the
\* store has failed, no user has been sent the Warning reply twice, and none
\* has been sent it after a Blocked reply.
C18_WarningOnceBeforeBlock ==
  ~hist.dbfail => \A u \in Users : hist.warn[u] \in {"no", "once"}

\* a user was warned and later blocked, every read and write having succeeded
C18_Witness ==
  /\ ~hist.dbfail
  /\ \E u \in Users :
       /\ hist.warn[u] = "once" /\ issued[u] # None
       /\ store[u].toxic_count = BlockAt /\ store[u].blocked_until = issued[u]

\* what the other handler decides for the record, now and verdict of s
OtherDecide(s) ==
  IF s.kind = "text"
  THEN handle_voice_decide(s.prediction, ReadCount(s), ReadUntil(s), s.now)
  ELSE handle_text_decide(s.prediction, ReadCount(s), ReadUntil(s), s.now)

\* C19: a handler that reached update_user_record with a verdict holds the
\* toxic_count and blocked_until, and has sent the replies, that the other
\* handler computes for the same read record, now and verdict; and a handler
\* that returned from the block branch sent AlreadyBlocked, whichever of the
\* two it is.
C19_SameDecision ==
  \A t \in DOMAIN task :
    LET s == task[t] IN
    /\ (s.pc \in {"update", "done"} /\ s.prediction # None) =>
         /\ s.toxic_count = OtherDecide(s).toxic_count
         /\ s.blocked_until = OtherDecide(s).blocked_until
         /\ s.replies = OtherDecide(s).replies
    /\ (s.pc = "done" /\ ReadBlocked(s)) =>
         ReplyKinds(s) = {"AlreadyBlocked"}

\* a voice handler about to store the block it imposed
C19_Witness ==
  \E t \in DOMAIN task :
    /\ task[t].kind = "voice" /\ task[t].pc = "update"
    /\ task[t].prediction = 1 /\ ReadCount(task[t]) = BlockAt - 1
    /\ "Blocked" \in ReplyKinds(task[t])
    /\ task[t].blocked_until = task[t].now + BlockDays

====
